---- MODULE Spec2Model ----
(***************************************************************************)
(* FinQuery: the command-line query engine (finquery_engine.py, app.py)   *)
(* and the dashboard loader with its derived-ratio buttons (app_web.py).  *)
(*                                                                         *)
(* Text is modelled by TLA+ strings, read character by character with     *)
(* SubSeq.  A CSV file is modelled as pandas.read_csv hands it over: a    *)
(* header row and data rows of cell texts, the empty text standing for a  *)
(* missing value (NaN).  A float is an extended rational <<n, d>>:        *)
(* <<n, d>> with d > 0 in lowest terms is n/d, <<0, 0>> is NaN, <<1, 0>>  *)
(* is +inf and <<-1, 0>> is -inf; rounding of IEEE doubles is not         *)
(* modelled.  The code points U+274C and U+2019 of the engine's messages  *)
(* are written as the ASCII texts "<U+274C>" and "<U+2019>".              *)
(***************************************************************************)
EXTENDS Integers, Sequences, FiniteSets, TLC

VARIABLES
    file,        \* the CSV at the configured path, as read_csv parses it
    padFill,     \* TRUE: the installed pandas forward-fills in pct_change
    pc,          \* app.py: "start", "prompt", "answered", "crashed", "exited"
    df,          \* FinQueryEngine.self.df, or None when it was never set
    q,           \* app.py: the question read by input() in this iteration
    result,      \* app.py: what engine.query(q) did in this iteration
    session_df,  \* app_web.py: st.session_state.df
    status       \* app_web.py: the last st.success / st.warning / st.error

vars == <<file, padFill, pc, df, q, result, session_df, status>>

-----------------------------------------------------------------------------
(* Python str operations *)

UpperLetters == "ABCDEFGHIJKLMNOPQRSTUVWXYZ"

LowerLetters == "abcdefghijklmnopqrstuvwxyz"

CharAt(s, i) == SubSeq(s, i, i)

\* str.lower() on one character
LowerMap ==
    [c \in {CharAt(UpperLetters, i) : i \in 1..Len(UpperLetters)} |->
        CharAt(LowerLetters, CHOOSE i \in 1..Len(UpperLetters) : CharAt(UpperLetters, i) = c)]

LowerChar(c) == IF c \in DOMAIN LowerMap THEN LowerMap[c] ELSE c

RECURSIVE Lower(_)
Lower(s) == IF s = "" THEN "" ELSE LowerChar(Head(s)) \o Lower(Tail(s))

\* Python's `k in s` on strings
Contains(s, k) ==
    \E i \in 1..(Len(s) - Len(k) + 1) : SubSeq(s, i, i + Len(k) - 1) = k

\* s.replace(c, r) for a one-character c
RECURSIVE StrReplace(_, _, _)
StrReplace(s, c, r) ==
    IF s = "" THEN ""
    ELSE (IF Head(s) = c THEN r ELSE Head(s)) \o StrReplace(Tail(s), c, r)

-----------------------------------------------------------------------------
(* Floats as extended rationals *)

NaN == <<0, 0>>

PosInf == <<1, 0>>

Abs(n) == IF n < 0 THEN -n ELSE n

Sign(n) == IF n < 0 THEN -1 ELSE IF n > 0 THEN 1 ELSE 0

RECURSIVE GCD(_, _)
GCD(a, b) == IF b = 0 THEN a ELSE GCD(b, a % b)

\* n/d in lowest terms with a positive denominator (d # 0)
Rat(n, d) ==
    LET g == GCD(Abs(n), Abs(d))
        s == Sign(d)
    IN  <<(s * n) \div g, Abs(d) \div g>>

Num(n) == <<n, 1>>

IsNaN(x) == x = NaN

IsInf(x) == x[2] = 0 /\ x[1] # 0

FMul(x, y) ==
    IF IsNaN(x) \/ IsNaN(y) THEN NaN
    ELSE IF IsInf(x) \/ IsInf(y)
         THEN (IF Sign(x[1]) * Sign(y[1]) = 0 THEN NaN ELSE <<Sign(x[1]) * Sign(y[1]), 0>>)
         ELSE Rat(x[1] * y[1], x[2] * y[2])

FSub(x, y) ==
    IF IsNaN(x) \/ IsNaN(y) THEN NaN
    ELSE IF IsInf(x) THEN (IF y = x THEN NaN ELSE x)
    ELSE IF IsInf(y) THEN <<-y[1], 0>>
    ELSE Rat(x[1] * y[2] - y[1] * x[2], x[2] * y[2])

\* numpy float division: x/0 is +-inf, 0/0 is NaN, never an exception
FDiv(x, y) ==
    IF IsNaN(x) \/ IsNaN(y) THEN NaN
    ELSE IF IsInf(x) THEN (IF IsInf(y) THEN NaN
                           ELSE <<x[1] * (IF y[1] < 0 THEN -1 ELSE 1), 0>>)
    ELSE IF IsInf(y) THEN Num(0)
    ELSE IF y[1] = 0 THEN (IF x[1] = 0 THEN NaN ELSE <<Sign(x[1]), 0>>)
    ELSE Rat(x[1] * y[2], x[2] * y[1])

-----------------------------------------------------------------------------
(* pd.to_numeric(..., errors="coerce") on one cell *)

DigitChars == "0123456789"

DigitMap ==
    [c \in {CharAt(DigitChars, i) : i \in 1..Len(DigitChars)} |->
        (CHOOSE i \in 1..Len(DigitChars) : CharAt(DigitChars, i) = c) - 1]

IsDigit(c) == c \in DOMAIN DigitMap

DigitVal(c) == DigitMap[c]

AllDigits(s) == \A i \in 1..Len(s) : IsDigit(CharAt(s, i))

RECURSIVE NatVal(_)
NatVal(s) ==
    IF s = "" THEN 0
    ELSE NatVal(SubSeq(s, 1, Len(s) - 1)) * 10 + DigitVal(CharAt(s, Len(s)))

RECURSIVE Pow10(_)
Pow10(n) == IF n = 0 THEN 1 ELSE 10 * Pow10(n - 1)

\* A decimal numeral, [sign] digits [. digits], parses to its value; any
\* other text (the empty text included) is coerced to NaN.
ToNumeric(s) ==
    LET signed == s # "" /\ Head(s) \in {"-", "+"}
        body   == IF signed THEN Tail(s) ELSE s
        dots   == {i \in 1..Len(body) : CharAt(body, i) = "."}
        dot    == IF dots = {} THEN Len(body) + 1
                  ELSE CHOOSE i \in dots : \A j \in dots : i <= j
        ip     == SubSeq(body, 1, dot - 1)
        fp     == SubSeq(body, dot + 1, Len(body))
        mag    == Rat(NatVal(ip \o fp), Pow10(Len(fp)))
    IN  IF AllDigits(ip) /\ AllDigits(fp) /\ Len(ip) + Len(fp) > 0
        THEN (IF signed /\ Head(s) = "-" THEN <<-mag[1], mag[2]>> ELSE mag)
        ELSE NaN

\* app_web.py: .str.replace(",", "").str.replace("(", "-").str.replace(")", "")
CleanAccounting(s) == StrReplace(StrReplace(StrReplace(s, ",", ""), "(", "-"), ")", "")

-----------------------------------------------------------------------------
(* Data frames *)

\* Python's None (an attribute never set, st.session_state.df before a load)
None == [none |-> TRUE]

Indices(s) == [i \in 1..Len(s) |-> i]

Range(s) == {s[i] : i \in 1..Len(s)}

Distinct(s) == \A i, j \in 1..Len(s) : i # j => s[i] # s[j]

\* position of the first element of s equal to x (x occurs in s)
IndexOf(s, x) == CHOOSE i \in 1..Len(s) : s[i] = x /\ \A j \in 1..(i - 1) : s[j] # x

\* The first column of the file, top to bottom.
FirstColumn(f) == [i \in 1..Len(f.rows) |-> f.rows[i][1]]

\* read_csv without dtype infers a column's type: it stays text only when
\* some non-empty cell is not a numeral.
InferredText(cells) == \E i \in 1..Len(cells) : cells[i] # "" /\ ToNumeric(cells[i]) = NaN

\* df.set_index(first_col).T.reset_index() and the rename of "index" to
\* "Year": one record per former header, one column per former row, named
\* by the row's first cell.  isstr[k] tells whether label k is a Python str
\* (an empty first cell is the float NaN; text tells whether the first
\* column was read as text).  The cells are still uncoerced.
SetIndexT(header, rows, text) ==
    LET names == [i \in 1..Len(rows) |-> rows[i][1]]
    IN  [columns |-> <<"Year">> \o names,
         isstr   |-> <<TRUE>> \o [i \in 1..Len(rows) |-> text /\ names[i] # ""],
         Year    |-> [j \in 1..(Len(header) - 1) |-> header[j + 1]],
         data    |-> <<<<>>>> \o [i \in 1..Len(rows) |->
                        [j \in 1..(Len(header) - 1) |-> rows[i][j + 1]]]]

EngineCoerce(s) == ToNumeric(s)

WebCoerce(s) == ToNumeric(CleanAccounting(s))

\* The coercion loop: every column the loop visits is replaced by the
\* coercion of its cells, the dashboard's (accounting = TRUE) cleaning the
\* text first; the "Year" column is not touched.
CoerceColumns(frame, accounting) ==
    [frame EXCEPT !.data = [k \in 1..Len(frame.columns) |->
        IF frame.columns[k] = "Year" THEN frame.data[k]
        ELSE [r \in 1..Len(frame.data[k]) |->
                IF accounting THEN WebCoerce(frame.data[k][r])
                ELSE EngineCoerce(frame.data[k][r])]]]

\* FinQueryEngine.__init__: the value of self.df afterwards.  Any exception
\* (an unreadable file; df[col] being a DataFrame because of a duplicate
\* label, which pd.to_numeric rejects) is caught and printed, and self.df is
\* never assigned.
EngineLoad(f) ==
    IF ~f.readable THEN None
    ELSE LET frame == SetIndexT(f.header, f.rows, InferredText(FirstColumn(f)))
         IN  IF ~Distinct(frame.columns) THEN None
             ELSE CoerceColumns(frame, FALSE)

\* simple heuristic: if many column names look like dates (contain '-')
DateLikeCount(header) == Cardinality({j \in 1..Len(header) : Contains(header[j], "-")})

\* mutant: dropna with how="any", its default
KeptColumnsAny(f) ==
    SelectSeq(Indices(f.header), LAMBDA j : \A i \in 1..Len(f.rows) : f.rows[i][j] # "")

\* df.dropna(axis=1, how="all"): the positions of the columns that keep at
\* least one non-missing cell
KeptColumns(f) ==
    SelectSeq(Indices(f.header), LAMBDA j : \E i \in 1..Len(f.rows) : f.rows[i][j] # "")

\* app_web.load_and_transform: [ok, df] with ok = FALSE when it raises.
LoadAndTransform(f) ==
    IF ~f.readable THEN [ok |-> FALSE, err |-> "FileNotFoundError", df |-> None]
    ELSE IF DateLikeCount(f.header) >= 2
    THEN LET kept   == KeptColumns(f)
             header == [k \in 1..Len(kept) |-> f.header[kept[k]]]
             rows   == [i \in 1..Len(f.rows) |-> [k \in 1..Len(kept) |-> f.rows[i][kept[k]]]]
             frame  == SetIndexT(header, rows, TRUE)
         IN  IF kept = <<>> \/ kept[1] # 1
             THEN [ok |-> FALSE, err |-> "KeyError", df |-> None]
             ELSE IF ~Distinct(SelectSeq(frame.columns, LAMBDA c : c # "Year"))
             THEN [ok |-> FALSE, err |-> "AttributeError", df |-> None]
             ELSE [ok |-> TRUE, err |-> "", df |-> CoerceColumns(frame, TRUE)]
    ELSE LET columns == IF "Year" \in Range(f.header) THEN f.header
                        ELSE <<"Year">> \o Tail(f.header)
             y       == IndexOf(columns, "Year")
             frame   == [columns |-> columns,
                         isstr   |-> [k \in 1..Len(columns) |-> TRUE],
                         Year    |-> [i \in 1..Len(f.rows) |-> f.rows[i][y]],
                         data    |-> [k \in 1..Len(columns) |->
                                        IF k = y THEN <<>>
                                        ELSE [i \in 1..Len(f.rows) |-> f.rows[i][k]]]]
         IN  [ok |-> TRUE, err |-> "", df |-> CoerceColumns(frame, TRUE)]

-----------------------------------------------------------------------------
(* FinQueryEngine *)

\* the word each branch of query puts in its "No column" message
BranchLabel(t) ==
    CASE t = "revenue"  -> "Revenue"
      [] t = "income"   -> "Income"
      [] t = "asset"    -> "Assets"
      [] t = "liabilit" -> "Liabilities"
      [] t = "cash"     -> "Cash"

\* mutant: the message names the trigger keyword instead of the branch's word
NoColumnMessageKeyword(t) == "<U+274C> No column related to '" \o t \o "' found."

NoColumnMessage(t) == "<U+274C> No column related to '" \o BranchLabel(t) \o "' found."

UnrecognizedMessage == "<U+274C> Sorry, I couldn<U+2019>t understand that query."

\* _find_col: the loop over self.df.columns.  It stops at the first label
\* that is not a str (col.lower() raises AttributeError) or that contains
\* the keyword; without self.df the attribute access itself raises.
\* col is the position of the column found, 0 for None.
FindCol(frame, keyword) ==
    IF frame = None THEN [raised |-> TRUE, col |-> 0]
    ELSE LET stop == {k \in 1..Len(frame.columns) :
                         \/ ~frame.isstr[k]
                         \/ Contains(Lower(frame.columns[k]), Lower(keyword))}
             k    == CHOOSE i \in stop : \A j \in stop : i <= j
         IN  IF stop = {} THEN [raised |-> FALSE, col |-> 0]
             ELSE IF ~frame.isstr[k] THEN [raised |-> TRUE, col |-> 0]
             ELSE [raised |-> FALSE, col |-> k]

\* mutant: the "income" branch moved to the end of the ladder
ClassifyIncomeLast(ql) ==
    IF Contains(ql, "revenue") THEN "revenue"
    ELSE IF Contains(ql, "asset") THEN "asset"
    ELSE IF Contains(ql, "liabilit") THEN "liabilit"
    ELSE IF Contains(ql, "cash") THEN "cash"
    ELSE IF Contains(ql, "income") THEN "income"
    ELSE ""

\* mutant: the "cash" branch tested before the "liabilit" branch
ClassifyCashFirst(ql) ==
    IF Contains(ql, "revenue") THEN "revenue"
    ELSE IF Contains(ql, "income") THEN "income"
    ELSE IF Contains(ql, "asset") THEN "asset"
    ELSE IF Contains(ql, "cash") THEN "cash"
    ELSE IF Contains(ql, "liabilit") THEN "liabilit"
    ELSE ""

\* the if/elif ladder of query over the lowercased question: the trigger of
\* the branch taken, "" for the final else
Classify(ql) ==
    IF Contains(ql, "revenue") THEN "revenue"
    ELSE IF Contains(ql, "income") THEN "income"
    ELSE IF Contains(ql, "asset") THEN "asset"
    ELSE IF Contains(ql, "liabilit") THEN "liabilit"
    ELSE IF Contains(ql, "cash") THEN "cash"
    ELSE ""

\* Series.fillna(method="pad"): each missing value takes the last value
\* before it that is not missing
FFill(vals) ==
    [i \in 1..Len(vals) |->
        LET known == {j \in 1..i : ~IsNaN(vals[j])}
        IN  IF known = {} THEN NaN
            ELSE vals[CHOOSE j \in known : \A k \in known : k <= j]]

\* Series.pct_change(): data / data.shift(1) - 1, where data is the series
\* forward-filled first when pandas' fill_method is "pad" (the default up to
\* pandas 2) and the series itself when it is None (pandas 3)
PctChange(vals, pad) ==
    LET data == IF pad THEN FFill(vals) ELSE vals
    IN  [i \in 1..Len(vals) |->
            IF i = 1 THEN NaN ELSE FSub(FDiv(data[i], data[i - 1]), Num(1))]

\* self.df[["Year", col]]
Projection(frame, k) ==
    [columns |-> <<"Year", frame.columns[k]>>,
     Year    |-> frame.Year,
     data    |-> <<frame.data[k]>>]

\* df = self.df[["Year", col]].copy(); df["Revenue Growth (%)"] = ...
GrowthFrame(frame, k, pad) ==
    LET p == Projection(frame, k)
    IN  [p EXCEPT !.columns = @ \o <<"Revenue Growth (%)">>,
                  !.data = @ \o <<[i \in 1..Len(frame.data[k]) |->
                                     FMul(PctChange(frame.data[k], pad)[i], Num(100))]>>]

\* FinQueryEngine.query: what the call does.  kind is "frame" (a data frame
\* is returned), "message" (a string is returned) or "raise"; trigger is the
\* branch of the ladder that was taken.
Query(frame, text, pad) ==
    LET ql    == Lower(text)
        t     == Classify(ql)
        found == FindCol(frame, t)
    IN  IF t = "" THEN [kind |-> "message", trigger |-> t, text |-> UnrecognizedMessage]
        ELSE IF found.raised THEN [kind |-> "raise", trigger |-> t, error |-> "AttributeError"]
        ELSE IF found.col = 0
             THEN [kind |-> "message", trigger |-> t, text |-> NoColumnMessage(t)]
        ELSE IF t = "revenue" /\ Contains(ql, "growth")
             THEN [kind |-> "frame", trigger |-> t, growth |-> TRUE,
                   frame |-> GrowthFrame(frame, found.col, pad)]
        ELSE [kind |-> "frame", trigger |-> t, growth |-> FALSE,
              frame |-> Projection(frame, found.col)]

-----------------------------------------------------------------------------
(* app.py *)

ExitWords == {"exit", "quit", "bye"}

\* engine = FinQueryEngine()
Construct ==
    /\ pc = "start"
    /\ df' = EngineLoad(file)
    /\ pc' = "prompt"
    /\ UNCHANGED <<file, padFill, q, result, session_df, status>>

\* one iteration of the while loop up to the call's return: q = input(),
\* the exit test, result = engine.query(q).  An exception of query is not
\* caught anywhere and ends the program.
Ask(text) ==
    /\ pc = "prompt"
    /\ q' = <<text>>
    /\ IF Lower(text) \in ExitWords
       THEN /\ pc' = "exited"
            /\ result' = None
       ELSE LET r == Query(df, text, padFill)
            IN  /\ result' = r
                /\ pc' = IF r.kind = "raise" THEN "crashed" ELSE "answered"
    /\ UNCHANGED <<file, padFill, df, session_df, status>>

\* the result is printed and the loop returns to input()
NextPrompt ==
    /\ pc = "answered"
    /\ pc' = "prompt"
    /\ q' = <<>>
    /\ result' = None
    /\ UNCHANGED <<file, padFill, df, session_df, status>>

-----------------------------------------------------------------------------
(* app_web.py: the script's load and the two Derived Ratios buttons *)

LoadedMessage == "<U+2705> Data loaded."

NotFoundMessage == "CSV not found"

LoadErrorMessage == "Error loading CSV"

DebtToEquityWarning ==
    "Columns named 'Total Liabilities' and 'Total Equity' required for this ratio."

CurrentRatioWarning == "Need 'Total Current Assets' and 'Total Current Liabilities' columns."

\* a run of the script that loads (the Load CSV button, or no table in the
\* session yet): on an exception st.error is shown and st.stop() ends the
\* run with the session's table as it was
LoadCsv ==
    /\ LET res == LoadAndTransform(file)
       IN  IF res.ok
           THEN /\ session_df' = res.df
                /\ status' = LoadedMessage
           ELSE /\ session_df' = session_df
                /\ status' = IF res.err = "FileNotFoundError"
                             THEN NotFoundMessage ELSE LoadErrorMessage
    /\ UNCHANGED <<file, padFill, pc, df, q, result>>

\* df[name] = vals: the column is replaced where the label exists and
\* appended otherwise
SetColumn(frame, name, vals) ==
    IF name \in Range(frame.columns)
    THEN [frame EXCEPT !.data[IndexOf(frame.columns, name)] = vals]
    ELSE [frame EXCEPT !.columns = @ \o <<name>>,
                       !.isstr = @ \o <<TRUE>>,
                       !.data = @ \o <<vals>>]

Column(frame, name) == frame.data[IndexOf(frame.columns, name)]

\* a run of the script in which a ratio button is pressed: df is the
\* session's table itself, so the new column stays in the session
RatioButton(num, den, name, warning) ==
    /\ session_df # None
    /\ IF num \in Range(session_df.columns) /\ den \in Range(session_df.columns)
       THEN /\ session_df' = SetColumn(session_df, name,
                                [i \in 1..Len(session_df.Year) |->
                                    FDiv(Column(session_df, num)[i], Column(session_df, den)[i])])
            /\ status' = ""
       ELSE /\ session_df' = session_df
            /\ status' = warning
    /\ UNCHANGED <<file, padFill, pc, df, q, result>>

DebtToEquityButton ==
    RatioButton("Total Liabilities", "Total Equity", "Debt_to_Equity", DebtToEquityWarning)

CurrentRatioButton ==
    RatioButton("Total Current Assets", "Total Current Liabilities", "Current_Ratio",
                CurrentRatioWarning)

-----------------------------------------------------------------------------
(* The files and questions of the runs *)

MaxMetrics == 2

MaxWords == 2

MaxPeriods == 3

MaxRows == 2

NoFile == [readable |-> FALSE, header |-> <<>>, rows |-> <<>>]

SeqsUpTo(S, n) == UNION {[1..k -> S] : k \in 0..n}

Table(header, rows) == [readable |-> TRUE, header |-> header, rows |-> rows]

\* the j-th reporting date, "2011-12-31", "2012-12-31", ...
PeriodLabel(j) == "201" \o CharAt(DigitChars, j + 1) \o "-12-31"

StatementHeader(n) == <<"Unnamed: 0">> \o [j \in 1..n |-> PeriodLabel(j)]

\* a statement whose i-th metric row is named names[i]
Statement(names) ==
    Table(StatementHeader(2), [i \in 1..Len(names) |-> <<names[i], "100", "150">>])

MetricNames ==
    {"Total Revenue", "Total Assets", "Other Assets", "Total Liabilities", "Cash", ""}

QueryFiles == {NoFile} \cup {Statement(names) : names \in SeqsUpTo(MetricNames, MaxMetrics)}

Fragments == {"REVENUE", " growth", "Income", "asset", "Liabilit", "cash"}

RECURSIVE Join(_)
Join(ws) == IF ws = <<>> THEN "" ELSE Head(ws) \o Join(Tail(ws))

Questions ==
    {"cash and liabilities", "Show me total revenue", "xyz nonsense", "Exit", "bye"}
    \cup {Join(ws) : ws \in SeqsUpTo(Fragments, MaxWords)}

\* statements with one revenue row over up to MaxPeriods periods
GrowthCells == {"100", "150", "90", "0", ""}

GrowthFiles ==
    {Table(StatementHeader(Len(cells)), << <<"Total Revenue">> \o cells >>) :
        cells \in SeqsUpTo(GrowthCells, MaxPeriods)}

GrowthQuestions == {"Show me revenue growth", "revenue"}

\* tables of three columns and up to MaxRows rows, in both orientations
TableHeaders ==
    {StatementHeader(2),
     <<"Year", "Total Liabilities", "Total Equity">>,
     <<"Period", "Total Liabilities", "Total Equity">>,
     <<"FY-End", "Year", "Total Equity">>}

FirstCells == {"Total Liabilities", "Total Equity", ""}

TableCells == {"", "(1,234)"}

GridFiles ==
    {Table(h, rows) : h \in TableHeaders,
                      rows \in SeqsUpTo({<<a, b, c>> : a \in FirstCells, b \in TableCells,
                                                       c \in TableCells}, MaxRows)}

CoerceCells == {"5,000", "(1,234)", "12.50", "-7", "abc", "(5", "1,2,3", "(-5)", "", "0"}

CellFiles == {Table(StatementHeader(2), << <<"Cash", c, "1">> >>) : c \in CoerceCells}

TableFiles == {NoFile} \cup GridFiles \cup CellFiles

InitWith(files) ==
    /\ file \in files
    /\ pc = "start"
    /\ df = None
    /\ q = <<>>
    /\ result = None
    /\ session_df = None
    /\ status = ""

\* the command-line program over statements that differ in their metrics
Init == InitWith(QueryFiles) /\ padFill \in BOOLEAN

Next ==
    \/ Construct
    \/ \E text \in Questions : Ask(text)
    \/ NextPrompt

Spec == Init /\ [][Next]_vars

\* the command-line program over revenue series, asked for growth
InitGrowth == InitWith(GrowthFiles) /\ padFill \in BOOLEAN

NextGrowth ==
    \/ Construct
    \/ \E text \in GrowthQuestions : Ask(text)
    \/ NextPrompt

SpecGrowth == InitGrowth /\ [][NextGrowth]_vars

\* both loaders and the ratio buttons over tables that differ in their
\* cells; pct_change is not reached in these runs
InitTables == InitWith(TableFiles) /\ padFill = FALSE

NextTables ==
    \/ Construct
    \/ LoadCsv
    \/ DebtToEquityButton
    \/ CurrentRatioButton

SpecTables == InitTables /\ [][NextTables]_vars

\* both programs over a few statements, with one question of each kind
FrameFiles ==
    {NoFile,
     Table(StatementHeader(2), << <<"Total Liabilities", "100", "150">>,
                                  <<"Total Equity", "50", "0">>,
                                  <<"Total Revenue", "100", "150">> >>),
     Table(StatementHeader(2), << <<"Total Current Assets", "90", "">>,
                                  <<"Total Current Liabilities", "30", "0">> >>),
     Table(StatementHeader(2), << <<"Total Liabilities", "100", "150">>,
                                  <<"Total Equity", "50", "0">>,
                                  <<"Debt_to_Equity", "9", "9">> >>),
     Table(StatementHeader(2), << <<"Total Revenue", "100", "150">>,
                                  <<"Cash", "5", "7">> >>)}

FrameQuestions == {"Show me total revenue", "Show me revenue growth", "xyz nonsense"}

InitFrame == InitWith(FrameFiles) /\ padFill \in BOOLEAN

NextFrame ==
    \/ Construct
    \/ \E text \in FrameQuestions : Ask(text)
    \/ NextPrompt
    \/ LoadCsv
    \/ DebtToEquityButton
    \/ CurrentRatioButton

SpecFrame == InitFrame /\ [][NextFrame]_vars

-----------------------------------------------------------------------------
(* The claims *)

Asked == q # <<>> /\ result # None

QuestionLower == Lower(q[1])

\* the positions of the columns of frame whose lowercased label contains k
Matching(frame, k) ==
    {i \in 1..Len(frame.columns) : Contains(Lower(frame.columns[i]), k)}

Least(S) == CHOOSE i \in S : \A j \in S : i <= j

\* the priority order of the triggers that the decision list documents
C2_Order == <<"revenue", "income", "asset", "liabilit", "cash">>

\* C1: no query call raises, and no engine without a loaded table serves a
\* query: whenever a query call has been made, the engine holds a table and
\* the call returned a data frame or a message.
C1_QueriesNeverRaise ==
    pc \in {"answered", "crashed"} => df # None /\ result.kind \in {"frame", "message"}

\* C2: the branch taken by query is that of the first trigger, in the order
\* revenue, income, asset, liabilit, cash, that occurs in the lowercased
\* question; a returned frame carries the growth column exactly when the
\* branch is revenue and the question contains "growth"; a question with no
\* trigger gets the "not understood" message.
C2_DecisionList ==
    Asked =>
        LET hits == {i \in 1..Len(C2_Order) : Contains(QuestionLower, C2_Order[i])}
        IN  /\ result.trigger = IF hits = {} THEN "" ELSE C2_Order[Least(hits)]
            /\ result.kind = "frame" =>
                  (result.growth <=> (result.trigger = "revenue"
                                      /\ Contains(QuestionLower, "growth")))
            /\ hits = {} => result.kind = "message" /\ result.text = UnrecognizedMessage

\* C2 witness: a question holding "cash" and "asset" was answered from the
\* asset branch.
C2_Witness ==
    /\ Asked
    /\ Contains(QuestionLower, "cash")
    /\ result.trigger = "asset"
    /\ result.kind = "frame"

C3_Question == q = <<"cash and liabilities">> /\ result # None

C3_BothMetrics ==
    /\ df # None
    /\ Matching(df, "cash") # {}
    /\ Matching(df, "liabilit") # {}

\* C3 as claimed: "cash and liabilities" against a table with a cash-like and
\* a liability-like metric returns the (period, cash column) projection.
C3_CashWins ==
    C3_Question /\ C3_BothMetrics =>
        /\ result.kind = "frame"
        /\ Contains(Lower(result.frame.columns[2]), "cash")

\* C3 as amended: "cash and liabilities" takes the "liabilit" branch; a frame
\* it returns is the (period, first liability-like column) projection of the
\* table and never the cash column, and it is returned whenever the table has
\* a liability-like metric and every label before it is text.
C3_LiabilityWins ==
    C3_Question =>
        /\ result.trigger = "liabilit"
        /\ result.kind = "frame" =>
              LET k == Least(Matching(df, "liabilit"))
              IN  /\ result.frame.columns = <<"Year", df.columns[k]>>
                  /\ result.frame.Year = df.Year
                  /\ result.frame.data = <<df.data[k]>>
                  /\ ~Contains(Lower(result.frame.columns[2]), "cash")
        /\ (/\ df # None
            /\ Matching(df, "liabilit") # {}
            /\ \A j \in 1..Least(Matching(df, "liabilit")) : df.isstr[j])
              => result.kind = "frame"

\* C3 witness: the question was answered with a frame from a table that has
\* a cash-like and a liability-like metric.
C3_Witness == C3_Question /\ C3_BothMetrics /\ result.kind = "frame"

\* C4: a query with a trigger, on a loaded table, returns the projection of
\* the first column in declared order whose lowercased label contains the
\* trigger, and the "no column" value when no label contains it.
C4_FirstMatch ==
    Asked /\ df # None /\ result.trigger # "" =>
        LET hits == Matching(df, result.trigger)
        IN  IF hits = {}
            THEN result.kind = "message"
            ELSE /\ result.kind = "frame"
                 /\ result.frame.columns[2] = df.columns[Least(hits)]

\* the texts the specification documents
C9_DocumentedNoColumn(t) == "No column related to '" \o t \o "' found."

C9_DocumentedUnrecognized == "Sorry, I couldn't understand that query."

\* C9 as claimed: a returned message is the documented text, the "no column"
\* one naming the trigger keyword used for the lookup.
C9_DocumentedText ==
    Asked /\ result.kind = "message" =>
        result.text = IF result.trigger = "" THEN C9_DocumentedUnrecognized
                      ELSE C9_DocumentedNoColumn(result.trigger)

C9_Words ==
    [revenue |-> "Revenue", income |-> "Income", asset |-> "Assets",
     liabilit |-> "Liabilities", cash |-> "Cash"]

\* C9 as amended: a returned message is the engine's literal text: U+274C, a
\* space, then "No column related to '<word>' found." with the branch's
\* capitalised word (Revenue, Income, Assets, Liabilities, Cash), or "Sorry, I
\* couldn<U+2019>t understand that query." for a question with no trigger;
\* a question whose trigger no label contains gets the former whenever the
\* call returns.
C9_ActualText ==
    Asked =>
        /\ result.kind = "message" =>
              result.text =
                  IF result.trigger = ""
                  THEN "<U+274C> Sorry, I couldn<U+2019>t understand that query."
                  ELSE "<U+274C> No column related to '" \o C9_Words[result.trigger]
                           \o "' found."
        /\ (df # None /\ result.trigger # "" /\ Matching(df, result.trigger) = {}
            /\ result.kind # "raise") => result.kind = "message"

\* C9 witness: a "liabilit" question was answered with the "no column"
\* message by an engine holding a table.
C9_Witness ==
    Asked /\ df # None /\ result.kind = "message" /\ result.trigger = "liabilit"

GrowthAnswer == Asked /\ result.kind = "frame" /\ result.growth

\* (cur - prev) / prev * 100 in float arithmetic
C8_Formula(cur, prev) == FMul(FDiv(FSub(cur, prev), prev), Num(100))

\* C8: in a growth answer the growth of every record is
\* (value[i] - value[i-1]) / value[i-1] * 100 over the record itself and the
\* immediately preceding record, the first being null, and the call does
\* not fail.
C8_FromPrecedingRecord ==
    /\ pc # "crashed"
    /\ GrowthAnswer =>
          LET v == result.frame.data[1]
              g == result.frame.data[2]
          IN  \A i \in 1..Len(v) :
                  g[i] = IF i = 1 THEN NaN ELSE C8_Formula(v[i], v[i - 1])

Transposable == file.readable /\ DateLikeCount(file.header) >= 2

\* the labels of frame's columns after "Year", as many as the file has rows
MetricLabels(frame) == SubSeq(frame.columns, 2, Len(file.rows) + 1)

C5_NonEmptyPeriods ==
    LET cols == SelectSeq([j \in 1..(Len(file.header) - 1) |-> j + 1],
                          LAMBDA j : \E i \in 1..Len(file.rows) : file.rows[i][j] # "")
    IN  [k \in 1..Len(cols) |-> file.header[cols[k]]]

C6_NoOpBeyondRenaming ==
    file.readable /\ DateLikeCount(file.header) < 2 =>
        LET renamed == IF "Year" \in Range(file.header) THEN file.header
                       ELSE <<"Year">> \o Tail(file.header)
        IN  /\ df # None =>
                  df.columns = renamed /\ Len(df.Year) = Len(file.rows)
            /\ session_df # None =>
                  /\ SubSeq(session_df.columns, 1, Len(renamed)) = renamed
                  /\ Len(session_df.Year) = Len(file.rows)

C7_Documented ==
    [c \in {"(1,234)", "5,000", "", "abc"} |->
        CASE c = "(1,234)" -> Num(-1234)
          [] c = "5,000"   -> Num(5000)
          [] OTHER         -> NaN]

\* C7: in a table loaded from a statement every cell holds the coercion of
\* its own text: "(1,234)" is -1234.0, "5,000" is 5000.0, the empty text and
\* "abc" are null.
C7_PerCellCoercion ==
    Transposable =>
        \A i \in 1..Len(file.rows) :
            file.rows[i][2] \in DOMAIN C7_Documented /\ file.rows[i][2] # "" =>
                /\ df # None => df.data[i + 1][1] = C7_Documented[file.rows[i][2]]
                /\ session_df # None =>
                      session_df.data[i + 1][1] = C7_Documented[file.rows[i][2]]

\* C10: queries and ratio requests leave the loaded table as it was loaded:
\* the engine's table is the table its load produced, and the dashboard's
\* table holds the loaded table's periods and, column by column, the loaded
\* labels and values, followed only by derived columns that hold the
\* per-record quotient; a ratio request that lacks a column only warns.
C10_LoadedTableKept ==
    /\ df # None => df = EngineLoad(file)
    /\ session_df # None =>
          LET loaded == LoadAndTransform(file).df
              n      == Len(loaded.columns)
          IN  /\ session_df.Year = loaded.Year
              /\ SubSeq(session_df.columns, 1, n) = loaded.columns
              /\ SubSeq(session_df.data, 1, n) = loaded.data
              /\ \A k \in (n + 1)..Len(session_df.columns) :
                    session_df.columns[k] \in {"Debt_to_Equity", "Current_Ratio"}

====
